---- MODULE Spec2Model ----
\* Model of update_alert_opt_webhook.py: an interactive run of main() against
\* the Meraki dashboard.  Strings typed by the operator are sequences of
\* one-character strings, so that strip(), lower(), split(), isdigit() and
\* int() are computed as Python computes them.
EXTENDS Integers, Sequences, FiniteSets, TLC

\* ------------------------------------------------------------------ bounds
\* Networks of the first organization.
MaxNets == 2

\* ------------------------------------------------------- Python strings
WS == {" ", "\t"}
UpperChars == <<"A","B","C","D","E","F","G","H","I","J","K","L","M",
                "N","O","P","Q","R","S","T","U","V","W","X","Y","Z">>
LowerChars == <<"a","b","c","d","e","f","g","h","i","j","k","l","m",
                "n","o","p","q","r","s","t","u","v","w","x","y","z">>
DigitChars == <<"0","1","2","3","4","5","6","7","8","9">>

\* str.lower() on one character
LowerChar(c) ==
    IF \E k \in DOMAIN UpperChars : UpperChars[k] = c
    THEN LowerChars[CHOOSE k \in DOMAIN UpperChars : UpperChars[k] = c]
    ELSE c

\* str.lower()
Lower(s) == [k \in DOMAIN s |-> LowerChar(s[k])]

RECURSIVE LStrip(_)
LStrip(s) == IF s # <<>> /\ Head(s) \in WS THEN LStrip(Tail(s)) ELSE s

RECURSIVE RStrip(_)
RStrip(s) ==
    IF s # <<>> /\ s[Len(s)] \in WS THEN RStrip(SubSeq(s, 1, Len(s) - 1)) ELSE s

\* str.strip()
Strip(s) == RStrip(LStrip(s))

IsDigitChar(c) == \E k \in DOMAIN DigitChars : DigitChars[k] = c
DigitVal(c) == (CHOOSE k \in DOMAIN DigitChars : DigitChars[k] = c) - 1

\* str.isdigit(): non-empty and every character a digit
IsDigit(s) == s # <<>> /\ \A k \in DOMAIN s : IsDigitChar(s[k])

\* value of a string of decimal digits
RECURSIVE DigitsVal(_)
DigitsVal(s) ==
    IF s = <<>> THEN 0
    ELSE 10 * DigitsVal(SubSeq(s, 1, Len(s) - 1)) + DigitVal(s[Len(s)])

\* int(s): surrounding whitespace and one sign are accepted, anything else
\* raises ValueError (ok = FALSE)
PyInt(s) ==
    LET t == Strip(s)
        signed == t # <<>> /\ Head(t) \in {"-", "+"}
        body == IF signed THEN Tail(t) ELSE t
    IN  IF IsDigit(body)
        THEN [ok |-> TRUE,
              val |-> IF signed /\ Head(t) = "-" THEN 0 - DigitsVal(body)
                      ELSE DigitsVal(body)]
        ELSE [ok |-> FALSE, val |-> 0]

\* s.split(','): the pieces between commas, empty pieces kept
RECURSIVE Split(_, _)
Split(s, acc) ==
    IF s = <<>> THEN <<acc>>
    ELSE IF Head(s) = "," THEN <<acc>> \o Split(Tail(s), <<>>)
    ELSE Split(Tail(s), Append(acc, Head(s)))

\* name.replace(' ', '_')
ReplaceSpaces(s) == [k \in DOMAIN s |-> IF s[k] = " " THEN "_" ELSE s[k]]

\* seq[k] with Python's indexing: k in -len..len-1, else IndexError
PyIndexOk(seq, k) == k >= 0 - Len(seq) /\ k <= Len(seq) - 1
PyIndex(seq, k) == IF k >= 0 THEN seq[k + 1] ELSE seq[Len(seq) + k + 1]

\* x in list
InList(x, seq) == \E k \in DOMAIN seq : seq[k] = x

\* ----------------------------------------------------- the remote dashboard
\* What the dashboard holds when the run starts.  Identifiers and names are
\* character sequences like every other string.
Org(k) == [id |-> <<"O", DigitChars[k + 1]>>, name |-> <<"o", DigitChars[k + 1]>>]

\* dashboard.organizations.getOrganizations()
RemoteOrgs == <<Org(1), Org(2)>>

\* A network record; a record without a 'tags' key has hasTags = FALSE.
NetOfOrg1(k) ==
    [id |-> <<"N", DigitChars[k + 1]>>,
     name |-> <<"S", "i", "t", "e", " ", DigitChars[k + 1]>>,
     hasTags |-> (k % 3 # 2),
     tags |-> IF k % 3 = 1 THEN << <<"p">> >>
              ELSE IF k % 3 = 2 THEN <<>>
              ELSE << <<"d">>, <<"p">> >>]

NetOfOrg2 ==
    [id |-> <<"M", "1">>, name |-> <<"L", "a", "b">>, hasTags |-> TRUE,
     tags |-> << <<"d">> >>]

\* the networks of each organization, by position in RemoteOrgs
DefaultNetworks == <<[k \in 1..MaxNets |-> NetOfOrg1(k)], <<NetOfOrg2>>>>

AllNetIds == {NetOfOrg1(k).id : k \in 1..MaxNets} \cup {NetOfOrg2.id}

\* Webhook receivers registered before the run starts.
InitHooks ==
    [n \in AllNetIds |->
        IF n = NetOfOrg1(1).id
        THEN <<[id |-> 1, name |-> <<"a">>, url |-> <<"v">>, sharedSecret |-> <<"k">>],
               [id |-> 2, name |-> <<"c">>, url |-> <<"u">>, sharedSecret |-> <<"k">>]>>
        ELSE <<>>]

\* ------------------------------------------------------- operator inputs
YES == <<"y", "e", "s">>
CONFIRM == <<"C", "O", "N", "F", "I", "R", "M">>
DefaultSecret == <<"d", "e", "f", "a", "u", "l", "t", "S", "e", "c", "r", "e", "t", "1", "2", "3">>

\* What the operator may type at each prompt.
DryInputs == {<<"y">>, <<" ", "Y">>, <<"n">>, <<>>}
ConfirmInputs == {YES, <<" ", "Y", "E", "S", " ">>, <<"n", "o">>, <<"y">>, <<>>}
OrgInputs == {<<"1">>, <<" ", "2">>, <<"0">>, <<"9">>, <<"x">>}
TagInputs == {<<>>, <<" ">>, <<"p">>, <<" ", "p">>, <<"P">>}
ChoiceInputs == {<<"Y", " ">>, <<"n">>}
\* "x,1"  "2,1"  " 2 ,2"  "1,1"  "0"  "9"  "x,-1,"
IndexInputs ==
    {<<"x", ",", "1">>,
     <<"2", ",", "1">>,
     <<" ", "2", " ", ",", "2">>,
     <<"1", ",", "1">>,
     <<"0">>,
     <<"9">>,
     <<"x", ",", "-", "1", ",">>}
WebhookYN == {<<"y">>, <<"n">>}
FinalInputs == {CONFIRM, <<" ">> \o CONFIRM \o <<" ">>, Lower(CONFIRM), <<>>}
\* name, url and secret typed at lines 162-164
WebhookInputs ==
    {[name |-> <<" ">>, url |-> <<"u">>, secret |-> <<>>],
     [name |-> <<"a">>, url |-> <<"w">>, secret |-> <<"s">>],
     [name |-> <<"b", " ">>, url |-> <<"u">>, secret |-> <<" ">>],
     [name |-> <<"b">>, url |-> <<" ", "w">>, secret |-> <<"s">>]}

\* ------------------------------------------------------------------ state
VARIABLES
    pc,                \* where main() is: "start", "confirm", "orgs", "nets",
                       \* "select", "prepare", "loop", or an end of the run:
                       \* "done", "aborted" (a return after a refusal),
                       \* "stopped" (the return at line 103), "crashed"
    answer,            \* the operator's most recent answer, as typed, and
                       \* the prompt it answered
    selection,         \* the operator's answers, as typed, to the organization,
                       \* all-networks and network-numbers prompts
    dry_run,           \* main's dry_run
    alert_settings,    \* main's alert_settings
    dashboard,         \* TRUE once meraki.DashboardAPI(...) was constructed
    org_id,            \* main's org_id
    listed,            \* what getOrganizationNetworks returned
    tag_filter,        \* main's tag_filter
    networks,          \* main's networks (after the filter)
    selected_networks, \* main's selected_networks
    use_webhook,       \* main's use_webhook
    webhook,           \* main's webhook_name, webhook_url, webhook_secret
    prompts,           \* how often the webhook name/url/secret were asked for
    i,                 \* position in selected_networks of the loop at line 147
    step,              \* within one iteration: "top", "backup", "update"
    remote_networks,   \* remote: each organization's networks, in order
    hooks,             \* remote: each network's webhook receivers, in order
    next_id,           \* remote: identity of the next receiver created
    applied,           \* remote: alert settings written to each network
    backup_dir,        \* TRUE once os.makedirs(backup_dir) ran
    backups,           \* files written into backup_dir
    calls,             \* every remote call and backup file write, in order
    log                \* the lines of log_file, in order

vars == <<pc, answer, selection, dry_run, alert_settings, dashboard, org_id, listed,
          tag_filter, networks, selected_networks, use_webhook, webhook,
          prompts, i, step, remote_networks, hooks, next_id, applied,
          backup_dir, backups, calls, log>>

\* Python's None, where a string or a record may stand
None == <<"None">>

\* the document json.load returns for the operator's config file
LoadedDoc == <<"alerts">>

\* one entry of calls
Call(op, pos, net, ok) ==
    [op |-> op, pos |-> pos, net |-> net, ok |-> ok, id |-> 0,
     name |-> <<>>, url |-> <<>>, doc |-> <<>>]

\* one line of the log file
Line(kind, pos, net) == [kind |-> kind, pos |-> pos, net |-> net]

\* f"{net_name.replace(' ', '_')}_{network_id}_alerts_backup.json"
BackupFile(net) == ReplaceSpaces(net.name) \o <<"_">> \o net.id

Init ==
    /\ pc = "start"
    /\ answer = [prompt |-> "none", raw |-> <<>>]
    /\ selection = [org |-> None, choice |-> None, indices |-> None]
    /\ dry_run = FALSE
    /\ alert_settings = None
    /\ dashboard = FALSE
    /\ org_id = None
    /\ listed = <<>>
    /\ tag_filter = None
    /\ networks = <<>>
    /\ selected_networks = <<>>
    /\ use_webhook = FALSE
    /\ webhook = [name |-> None, url |-> None, secret |-> None]
    /\ prompts = 0
    /\ i = 0
    /\ step = "top"
    /\ remote_networks = DefaultNetworks
    /\ hooks = InitHooks
    /\ next_id = 3
    /\ applied = [n \in AllNetIds |-> None]
    /\ backup_dir = FALSE
    /\ backups = {}
    /\ calls = <<>>
    /\ log = <<>>

\* input(prompt) returned raw
Answer(p, raw) == answer' = [prompt |-> p, raw |-> raw]

\* ---------------------------------------------------------------- helpers
\* only the first tag of each network compared
RECURSIVE filter_networks_by_tag_FirstTagOnly(_, _)
filter_networks_by_tag_FirstTagOnly(nets, tag) ==
    IF nets = <<>> THEN <<>>
    ELSE LET net == Head(nets)
             rest == filter_networks_by_tag_FirstTagOnly(Tail(nets), tag)
         IN  IF net.hasTags /\ net.tags # <<>> /\ net.tags[1] = tag
             THEN <<net>> \o rest ELSE rest

\* filter_networks_by_tag: [net for net in networks if tag in net.get('tags', [])]
RECURSIVE filter_networks_by_tag(_, _)
filter_networks_by_tag(nets, tag) ==
    IF nets = <<>> THEN <<>>
    ELSE LET net == Head(nets)
             tags == IF net.hasTags THEN net.tags ELSE <<>>
             rest == filter_networks_by_tag(Tail(nets), tag)
         IN  IF InList(tag, tags) THEN <<net>> \o rest ELSE rest

\* [int(i.strip()) - 1 for i in indices.split(',') if i.strip().isdigit()]
RECURSIVE IndicesOf(_)
IndicesOf(tokens) ==
    IF tokens = <<>> THEN <<>>
    ELSE LET t == Strip(Head(tokens))
         IN  IF IsDigit(t)
             THEN <<PyInt(t).val - 1>> \o IndicesOf(Tail(tokens))
             ELSE IndicesOf(Tail(tokens))

ParseIndices(raw) == IndicesOf(Split(raw, <<>>))

\* the two fields compared crosswise
HookMatches_Swapped(hook, name, url) == hook.name = url \/ hook.url = name

\* hook['name'] == name or hook['url'] == url
HookMatches(hook, name, url) == hook.name = name \/ hook.url = url

\* the first hook of existing_hooks the loop at line 43 returns, if any
HasMatch(existing, name, url) ==
    \E k \in DOMAIN existing : HookMatches(existing[k], name, url)

\* the loop at line 43 running to its end and keeping the last hit
FirstMatch_Last(existing, name, url) ==
    existing[CHOOSE k \in DOMAIN existing :
        /\ HookMatches(existing[k], name, url)
        /\ \A j \in (k + 1)..Len(existing) : ~HookMatches(existing[j], name, url)]

\* the hook the loop at line 43 returns: the first that matches
FirstMatch(existing, name, url) ==
    existing[CHOOSE k \in DOMAIN existing :
        /\ HookMatches(existing[k], name, url)
        /\ \A j \in 1..(k - 1) : ~HookMatches(existing[j], name, url)]

\* not x, for x a string or None
Falsy(x) == x = None \/ x = <<>>

\* ----------------------------------------------------------- create_webhook
\* create_webhook(dashboard, network_id, name, url, shared_secret) on a network
\* whose receivers are `existing`; listOk and createOk say whether the two
\* remote calls return or raise, newId is the identity the dashboard gives a
\* new receiver.  The result holds the returned receiver (ok = FALSE for
\* None), the network's receivers afterwards and the remote calls made.
create_webhook(existing, pos, net, name, url, secret, listOk, createOk, newId) ==
    LET listCall == Call("getNetworkWebhooksHttpServers", pos, net, listOk)
        createCall == [Call("createNetworkWebhooksHttpServer", pos, net, createOk)
                         EXCEPT !.name = name, !.url = url, !.id = newId]
        created == [id |-> newId, name |-> name, url |-> url, sharedSecret |-> secret]
        nohook == [id |-> 0, name |-> <<>>, url |-> <<>>, sharedSecret |-> <<>>]
    IN  IF ~listOk
        THEN [ok |-> FALSE, hook |-> nohook, hooks |-> existing,
              calls |-> <<listCall>>]
        ELSE IF HasMatch(existing, name, url)
        THEN [ok |-> TRUE, hook |-> FirstMatch(existing, name, url),
              hooks |-> existing, calls |-> <<listCall>>]
        ELSE IF createOk
        THEN [ok |-> TRUE, hook |-> created, hooks |-> Append(existing, created),
              calls |-> <<listCall, createCall>>]
        ELSE [ok |-> FALSE, hook |-> nohook, hooks |-> existing,
              calls |-> <<listCall, createCall>>]

\* the entry of calls that records what create_webhook returned
Returned(pos, net, name, url, r) ==
    [Call("create_webhook", pos, net, r.ok)
        EXCEPT !.name = name, !.url = url, !.id = r.hook.id]

\* get_networks_in_org: what the dashboard returns for the organization
get_networks_in_org(oid) ==
    remote_networks[CHOOSE k \in DOMAIN RemoteOrgs : RemoteOrgs[k].id = oid]

\* ------------------------------------------------------------ main, start
\* lines 73-80: the three first prompts and the config file
Start ==
    /\ pc = "start"
    /\ \E d \in DryInputs, loaded \in BOOLEAN :
          /\ Answer("dry_run", d)
          /\ dry_run' = (Lower(Strip(d)) = <<"y">>)
          /\ IF loaded
             THEN alert_settings' = LoadedDoc /\ pc' = "confirm"
             ELSE alert_settings' = alert_settings /\ pc' = "crashed"
    /\ UNCHANGED <<selection, dashboard, org_id, listed, tag_filter, networks,
                   selected_networks, use_webhook, webhook, prompts, i, step,
                   remote_networks, hooks, next_id, applied, backup_dir, backups, calls, log>>

\* a bare "y" taken for yes
Declined_AcceptsY(raw) == Lower(Strip(raw)) \notin {YES, <<"y">>}

\* confirm != 'yes' at line 83
Declined(raw) == Lower(Strip(raw)) # YES

\* lines 82-87: the first confirmation, then the dashboard handle
Confirm ==
    /\ pc = "confirm"
    /\ \E c \in ConfirmInputs :
          /\ Answer("confirm", c)
          /\ IF Declined(c)
             THEN pc' = "aborted" /\ dashboard' = dashboard
             ELSE pc' = "orgs" /\ dashboard' = TRUE
    /\ UNCHANGED <<selection, dry_run, alert_settings, org_id, listed,
                   tag_filter, networks, selected_networks, use_webhook,
                   webhook, prompts, i, step, remote_networks, hooks, next_id, applied,
                   backup_dir, backups, calls, log>>

\* lines 89-94: list the organizations, read an index, pick the organization
SelectOrg ==
    /\ pc = "orgs"
    /\ \E ok \in BOOLEAN, o \in OrgInputs :
          /\ calls' = Append(calls, Call("getOrganizations", 0, <<>>, ok))
          /\ IF ~ok
             THEN pc' = "crashed" /\ UNCHANGED <<answer, selection, org_id>>
             ELSE /\ Answer("org", o)
                  /\ selection' = [selection EXCEPT !.org = o]
                  /\ LET n == PyInt(o)
                     IN  IF n.ok /\ PyIndexOk(RemoteOrgs, n.val - 1)
                         THEN /\ org_id' = PyIndex(RemoteOrgs, n.val - 1).id
                              /\ pc' = "nets"
                         ELSE pc' = "crashed" /\ org_id' = org_id
    /\ UNCHANGED <<dry_run, alert_settings, dashboard, listed, tag_filter,
                   networks, selected_networks, use_webhook, webhook, prompts,
                   i, step, remote_networks, hooks, next_id, applied, backup_dir, backups, log>>

\* lines 96-109: list the networks, read the tag, filter
ListNetworks ==
    /\ pc = "nets"
    /\ \E ok \in BOOLEAN, t \in TagInputs :
          /\ calls' = Append(calls, Call("getOrganizationNetworks", 0, <<>>, ok))
          /\ IF ~ok
             THEN pc' = "crashed" /\ UNCHANGED <<answer, listed, tag_filter, networks>>
             ELSE /\ Answer("tag", t)
                  /\ listed' = get_networks_in_org(org_id)
                  /\ tag_filter' = Strip(t)
                  /\ IF tag_filter' # <<>>
                     THEN /\ networks' = filter_networks_by_tag(listed', tag_filter')
                          /\ pc' = IF networks' = <<>> THEN "stopped" ELSE "select"
                     ELSE networks' = listed' /\ pc' = "select"
    /\ UNCHANGED <<selection, dry_run, alert_settings, dashboard, org_id,
                   selected_networks, use_webhook, webhook, prompts, i, step,
                   remote_networks, hooks, next_id, applied, backup_dir, backups, log>>

\* lines 111-117: all listed networks, or the ones at the typed indices
SelectNetworks ==
    /\ pc = "select"
    /\ \E c \in ChoiceInputs :
          IF Lower(Strip(c)) = <<"y">>
          THEN /\ Answer("choice", c)
               /\ selection' = [selection EXCEPT !.choice = c]
               /\ selected_networks' = networks
               /\ pc' = "prepare"
          ELSE \E raw \in IndexInputs :
               LET indices == ParseIndices(raw)
               IN  /\ Answer("indices", raw)
                   /\ selection' = [selection EXCEPT !.choice = c, !.indices = raw]
                   /\ IF \A k \in DOMAIN indices : PyIndexOk(networks, indices[k])
                      THEN /\ selected_networks' =
                                 [k \in DOMAIN indices |-> PyIndex(networks, indices[k])]
                           /\ pc' = "prepare"
                      ELSE pc' = "crashed" /\ selected_networks' = selected_networks
    /\ UNCHANGED <<dry_run, alert_settings, dashboard, org_id, listed,
                   tag_filter, networks, use_webhook, webhook, prompts, i, step,
                   remote_networks, hooks, next_id, applied, backup_dir, backups, calls, log>>

\* the token compared without regard to case
Refused_IgnoringCase(raw) == Lower(Strip(raw)) # Lower(CONFIRM)

\* final_confirm != 'CONFIRM' at line 142
Refused(raw) == Strip(raw) # CONFIRM

\* lines 119-144: backup directory, log header, webhook question, final check
Prepare ==
    /\ pc = "prepare"
    /\ backup_dir' = TRUE
    /\ log' = log \o <<Line("header", 0, <<>>), Line("dryrun", 0, <<>>)>>
    /\ \E w \in WebhookYN, f \in FinalInputs :
          /\ use_webhook' = (Lower(Strip(w)) = <<"y">>)
          /\ Answer("final", f)
          /\ IF Refused(f)
             THEN pc' = "aborted" /\ i' = i
             ELSE pc' = "loop" /\ i' = 1
    /\ UNCHANGED <<selection, dry_run, alert_settings, dashboard, org_id,
                   listed, tag_filter, networks, selected_networks, webhook,
                   prompts, step, remote_networks, hooks, next_id, applied, backups, calls>>

\* ------------------------------------------------------- main, the loop
InLoop == pc = "loop" /\ i <= Len(selected_networks)

\* the selection walked from its end
Current_Reversed == selected_networks[Len(selected_networks) + 1 - i]

\* `network` in the loop at line 147
Current == selected_networks[i]

\* a dry run honoured only on the path without webhooks
Simulated_OnlyWithoutWebhook == dry_run /\ ~use_webhook

\* the dry-run flag ignored
Simulated_Never == FALSE

\* a dry run honoured for the first network alone
Simulated_FirstOnly == dry_run /\ i = 1

\* `if dry_run:` at line 152
Simulated == dry_run

\* lines 152-156: a dry run logs what it would do and moves on
DryRunStep ==
    /\ InLoop /\ step = "top" /\ Simulated
    /\ log' = Append(log, Line("dry", i, Current.id))
    /\ i' = i + 1
    /\ UNCHANGED <<pc, answer, selection, dry_run, alert_settings, dashboard, org_id,
                   listed, tag_filter, networks, selected_networks,
                   use_webhook, webhook, prompts, step, remote_networks, hooks, next_id,
                   applied, backup_dir, backups, calls>>

\* a missing receiver does not stop the network
AfterWebhook_FailOpen(has_response) == "backup"

\* where main goes after create_webhook returned, lines 167-170:
\* `if not webhook_response: ... continue`
AfterWebhook(has_response) == IF has_response THEN "backup" ELSE "top"

\* lines 160-170: ask for the webhook once it has no name, then create or
\* reuse it; without a receiver the network is skipped
WebhookStep ==
    /\ InLoop /\ step = "top" /\ ~Simulated /\ use_webhook
    /\ \E typed \in WebhookInputs, listOk \in BOOLEAN, createOk \in BOOLEAN :
          /\ IF Falsy(webhook.name)
             THEN /\ webhook' = [name |-> Strip(typed.name),
                                 url |-> Strip(typed.url),
                                 secret |-> IF Strip(typed.secret) = <<>>
                                            THEN DefaultSecret
                                            ELSE Strip(typed.secret)]
                  /\ prompts' = prompts + 1
                  /\ Answer("secret", typed.secret)
             ELSE UNCHANGED <<webhook, prompts, answer>>
          /\ LET r == create_webhook(hooks[Current.id], i, Current.id,
                                     webhook'.name, webhook'.url, webhook'.secret,
                                     listOk, createOk, next_id)
             IN  /\ hooks' = [hooks EXCEPT ![Current.id] = r.hooks]
                 /\ next_id' = IF Len(r.hooks) > Len(hooks[Current.id])
                               THEN next_id + 1 ELSE next_id
                 /\ calls' = calls \o r.calls \o
                       <<Returned(i, Current.id, webhook'.name, webhook'.url, r)>>
                 /\ step' = AfterWebhook(r.ok)
                 /\ IF step' = "top"
                    THEN /\ log' = Append(log, Line("skipped", i, Current.id))
                         /\ i' = i + 1
                    ELSE UNCHANGED <<log, i>>
    /\ UNCHANGED <<pc, selection, dry_run, alert_settings, dashboard, org_id,
                   listed, tag_filter, networks, selected_networks,
                   use_webhook, remote_networks, applied, backup_dir, backups>>

\* backup_alert_settings, lines 23-38: (True, filename) or (False, error);
\* fetched and written say whether the fetch and the file write succeed
backup_alert_settings(pos, net, fetched, written) ==
    LET fetch == Call("getNetworkAlertsSettings", pos, net.id, fetched)
        write == Call("writeBackupFile", pos, net.id, written)
    IN  IF ~fetched THEN [ok |-> FALSE, files |-> {}, calls |-> <<fetch>>]
        ELSE IF ~written THEN [ok |-> FALSE, files |-> {}, calls |-> <<fetch, write>>]
        ELSE [ok |-> TRUE, files |-> {BackupFile(net)}, calls |-> <<fetch, write>>]

\* the update left out after every backup
AfterBackup_AlwaysSkip(backed_up) == "top"

\* the `continue` at line 179 left out
AfterBackup_NoSkip(backed_up) == "update"

\* where main goes after backup_alert_settings returned, lines 174-179
AfterBackup(backed_up) == IF backed_up THEN "update" ELSE "top"

\* lines 173-179: back the settings up; without a backup, no update
BackupStep ==
    /\ InLoop /\ ~Simulated
    /\ step = "backup" \/ (step = "top" /\ ~use_webhook)
    /\ \E fetched \in BOOLEAN, written \in BOOLEAN :
          LET b == backup_alert_settings(i, Current, fetched, written)
          IN  /\ calls' = calls \o b.calls
              /\ backups' = backups \cup b.files
              /\ log' = Append(log, Line(IF b.ok THEN "backed_up" ELSE "backup_failed",
                                         i, Current.id))
              /\ step' = AfterBackup(b.ok)
              /\ i' = IF step' = "top" THEN i + 1 ELSE i
    /\ UNCHANGED <<pc, answer, selection, dry_run, alert_settings, dashboard, org_id,
                   listed, tag_filter, networks, selected_networks,
                   use_webhook, webhook, prompts, remote_networks, hooks, next_id, applied,
                   backup_dir>>

\* update_network_alert_settings without its try/except
AfterUpdate_Raises(ok) == IF ok THEN "loop" ELSE "crashed"

\* where main is after update_network_alert_settings returned or raised:
\* the function catches every exception, so the loop goes on (lines 64-70)
AfterUpdate(ok) == "loop"

\* the receiver written into the document, as lines 182-187 would if enabled
SentDocument_Injected(doc, linked) ==
    IF linked THEN Append(doc, "httpServerIds") ELSE doc

\* the document line 189 passes on: lines 181-187 are a comment, so it is
\* alert_settings as loaded, with or without a receiver
SentDocument(doc, linked) == doc

\* lines 189-193: send the loaded document, log the outcome
UpdateStep ==
    /\ InLoop /\ ~Simulated /\ step = "update"
    /\ \E ok \in BOOLEAN :
          /\ calls' = Append(calls,
                [Call("updateNetworkAlertsSettings", i, Current.id, ok)
                    EXCEPT !.doc = SentDocument(alert_settings, use_webhook)])
          /\ applied' = IF ok
                        THEN [applied EXCEPT ![Current.id] =
                                 SentDocument(alert_settings, use_webhook)]
                        ELSE applied
          /\ log' = Append(log, Line(IF ok THEN "updated" ELSE "update_failed",
                                     i, Current.id))
          /\ pc' = AfterUpdate(ok)
    /\ i' = i + 1
    /\ step' = "top"
    /\ UNCHANGED <<answer, selection, dry_run, alert_settings, dashboard, org_id, listed,
                   tag_filter, networks, selected_networks, use_webhook,
                   webhook, prompts, remote_networks, hooks, next_id, backup_dir, backups>>

\* lines 195-196: the loop is over
Finish ==
    /\ pc = "loop" /\ i > Len(selected_networks)
    /\ pc' = "done"
    /\ UNCHANGED <<answer, selection, dry_run, alert_settings, dashboard, org_id, listed,
                   tag_filter, networks, selected_networks, use_webhook,
                   webhook, prompts, i, step, remote_networks, hooks, next_id, applied,
                   backup_dir, backups, calls, log>>

Next ==
    \/ Start
    \/ Confirm
    \/ SelectOrg
    \/ ListNetworks
    \/ SelectNetworks
    \/ Prepare
    \/ DryRunStep
    \/ WebhookStep
    \/ BackupStep
    \/ UpdateStep
    \/ Finish

Spec == Init /\ [][Next]_vars

\* The run from the moment the organization is chosen, for any list of
\* networks the dashboard may return for it.
TagOptions ==
    {[hasTags |-> FALSE, tags |-> <<>>],
     [hasTags |-> TRUE, tags |-> <<>>],
     [hasTags |-> TRUE, tags |-> << <<"p">> >>],
     [hasTags |-> TRUE, tags |-> << <<"d">> >>],
     [hasTags |-> TRUE, tags |-> << <<"d">>, <<"p">> >>],
     [hasTags |-> TRUE, tags |-> << <<"P">>, <<"p", "p">> >>]}

NetworkLists ==
    UNION {{[k \in 1..n |-> [id |-> NetOfOrg1(k).id, name |-> NetOfOrg1(k).name,
                             hasTags |-> t[k].hasTags, tags |-> t[k].tags]] :
              t \in [1..n -> TagOptions]} : n \in 0..MaxNets}

InitFilter ==
    /\ pc = "nets"
    /\ answer = [prompt |-> "org", raw |-> <<"1">>]
    /\ selection = [org |-> <<"1">>, choice |-> None, indices |-> None]
    /\ dry_run \in BOOLEAN
    /\ alert_settings = LoadedDoc
    /\ dashboard = TRUE
    /\ org_id = Org(1).id
    /\ listed = <<>>
    /\ tag_filter = None
    /\ networks = <<>>
    /\ selected_networks = <<>>
    /\ use_webhook = FALSE
    /\ webhook = [name |-> None, url |-> None, secret |-> None]
    /\ prompts = 0
    /\ i = 0
    /\ step = "top"
    /\ remote_networks \in {<<l, <<NetOfOrg2>>>> : l \in NetworkLists}
    /\ hooks = InitHooks
    /\ next_id = 3
    /\ applied = [n \in AllNetIds |-> None]
    /\ backup_dir = FALSE
    /\ backups = {}
    /\ calls = <<Call("getOrganizations", 0, <<>>, TRUE)>>
    /\ log = <<>>

SpecFilter == InitFilter /\ [][ListNetworks]_vars

\* The loop from its first iteration, with webhooks asked for, over the
\* networks tagged p, for any receivers the first network may already have.
MaxHooks == 2

HookFields ==
    {[name |-> n, url |-> u] : n \in {<<"a">>, <<"b">>, <<"c">>},
                               u \in {<<"u">>, <<"w">>, <<"v">>}}

HookLists ==
    UNION {{[k \in 1..n |-> [id |-> k, name |-> f[k].name, url |-> f[k].url,
                             sharedSecret |-> <<"s">>]] :
              f \in [1..n -> HookFields]} : n \in 0..MaxHooks}

InitHook ==
    /\ pc = "loop"
    /\ answer = [prompt |-> "final", raw |-> CONFIRM]
    /\ selection = [org |-> <<"1">>, choice |-> <<"y">>, indices |-> None]
    /\ dry_run = FALSE
    /\ alert_settings = LoadedDoc
    /\ dashboard = TRUE
    /\ org_id = Org(1).id
    /\ listed = DefaultNetworks[1]
    /\ tag_filter = <<"p">>
    /\ networks = filter_networks_by_tag(DefaultNetworks[1], <<"p">>)
    /\ selected_networks = networks
    /\ use_webhook = TRUE
    /\ webhook = [name |-> None, url |-> None, secret |-> None]
    /\ prompts = 0
    /\ i = 1
    /\ step = "top"
    /\ remote_networks = DefaultNetworks
    /\ \E l \in HookLists : hooks = [InitHooks EXCEPT ![NetOfOrg1(1).id] = l]
    /\ next_id = Len(hooks[NetOfOrg1(1).id]) + 1
    /\ applied = [n \in AllNetIds |-> None]
    /\ backup_dir = TRUE
    /\ backups = {}
    /\ calls = <<Call("getOrganizations", 0, <<>>, TRUE),
                 Call("getOrganizationNetworks", 0, <<>>, TRUE)>>
    /\ log = <<Line("header", 0, <<>>), Line("dryrun", 0, <<>>)>>

SpecHook == InitHook /\ [][WebhookStep]_vars

\* the run never stops while a step of main is left to take
FairSpec == Spec /\ WF_vars(Next)

\* ================================================================ claims
\* the calls that change something: a receiver, a backup file, the settings
MutatingOps ==
    {"createNetworkWebhooksHttpServer", "writeBackupFile",
     "updateNetworkAlertsSettings"}

NoMutatingCall == \A k \in DOMAIN calls : calls[k].op \notin MutatingOps

\* nothing was changed, remotely or in the backup directory
NoMutation ==
    /\ NoMutatingCall
    /\ hooks = InitHooks
    /\ backups = {}
    /\ \A n \in DOMAIN applied : applied[n] = None

CallAt(p, op) == \E k \in DOMAIN calls : calls[k].pos = p /\ calls[k].op = op
OkAt(p, op) ==
    \E k \in DOMAIN calls : calls[k].pos = p /\ calls[k].op = op /\ calls[k].ok
FailedAt(p, op) ==
    \E k \in DOMAIN calls : calls[k].pos = p /\ calls[k].op = op /\ ~calls[k].ok
LogAt(p, kind) == \E k \in DOMAIN log : log[k].pos = p /\ log[k].kind = kind

\* C1: every updateNetworkAlertsSettings call comes after a successful backup
\* file write for the same network in the same iteration, the file is in the
\* backup directory, and an iteration whose backup failed (fetch or write)
\* has no update call.
C1_BackupBeforeUpdate ==
    \A k \in DOMAIN calls :
        calls[k].op = "updateNetworkAlertsSettings" =>
            /\ \E j \in 1..(k - 1) :
                  /\ calls[j].op = "writeBackupFile"
                  /\ calls[j].ok
                  /\ calls[j].pos = calls[k].pos
                  /\ calls[j].net = calls[k].net
            /\ BackupFile(selected_networks[calls[k].pos]) \in backups
            /\ ~FailedAt(calls[k].pos, "getNetworkAlertsSettings")
            /\ ~FailedAt(calls[k].pos, "writeBackupFile")

\* a finished run with an update after its backup and a network whose backup
\* failed
C1_Witness ==
    /\ pc = "done"
    /\ \E k \in DOMAIN calls : calls[k].op = "updateNetworkAlertsSettings"
    /\ \E p \in 1..Len(selected_networks) :
          FailedAt(p, "getNetworkAlertsSettings") \/ FailedAt(p, "writeBackupFile")

\* C2 as stated: any answer to the final check other than exactly CONFIRM
\* leaves the run without a mutating call.
C2_OnlyExactConfirm ==
    (answer.prompt = "final" /\ answer.raw # CONFIRM) => NoMutatingCall

\* C2 as amended: an answer to the final check that is not CONFIRM once its
\* surrounding whitespace is stripped ends the run at once, with nothing
\* changed for any network.
C2_StrippedConfirmGate ==
    (answer.prompt = "final" /\ Strip(answer.raw) # CONFIRM) =>
        (pc = "aborted" /\ NoMutation)

\* the operator typed "confirm" for a non-empty selection; the run is over
C2_Witness ==
    /\ pc = "aborted"
    /\ answer = [prompt |-> "final", raw |-> Lower(CONFIRM)]
    /\ selected_networks # <<>>

\* C3: in a dry run no receiver is created, no backup file is written and
\* no alert-settings update is sent, in any state of the run.
C3_DryRunNoMutation == dry_run => NoMutation

\* a finished dry run over two networks with webhooks requested
C3_Witness ==
    /\ dry_run /\ use_webhook /\ pc = "done"
    /\ Len(selected_networks) >= 2
    /\ \A p \in 1..Len(selected_networks) : LogAt(p, "dry")

\* C4: a failure in a network's step never ends the loop: once the loop has
\* begun the run is in it or finished, it finishes only after the last
\* selected network, and every network passed so far got its own webhook,
\* backup and update attempts and an outcome line in the log.
C4_FailureIsolation ==
    /\ i > 0 => pc \in {"loop", "done"}
    /\ pc = "done" => i = Len(selected_networks) + 1
    /\ \A p \in 1..Len(selected_networks) :
          (p < i /\ ~dry_run) =>
              /\ IF use_webhook
                 THEN CallAt(p, "getNetworkWebhooksHttpServers")
                 ELSE CallAt(p, "getNetworkAlertsSettings")
              /\ OkAt(p, "create_webhook") => CallAt(p, "getNetworkAlertsSettings")
              /\ OkAt(p, "writeBackupFile") => CallAt(p, "updateNetworkAlertsSettings")
              /\ \E kind \in {"skipped", "backup_failed", "updated", "update_failed"} :
                    LogAt(p, kind)

\* the update of the first network failed and the second was still updated
C4_Witness ==
    /\ pc = "done"
    /\ FailedAt(1, "updateNetworkAlertsSettings")
    /\ LogAt(1, "update_failed")
    /\ CallAt(2, "updateNetworkAlertsSettings")

\* C5: when create_webhook returns None for a network (the listing or the
\* creation failed), the network gets no backup and no update, a skip line
\* is logged and the loop is at a later network; when it returns a receiver,
\* no skip line is logged and the backup step is next or was taken.
C5_WebhookFailClosed ==
    /\ \A k \in DOMAIN calls :
          calls[k].op = "create_webhook" =>
              LET p == calls[k].pos
              IN  IF ~calls[k].ok
                  THEN /\ ~CallAt(p, "getNetworkAlertsSettings")
                       /\ ~CallAt(p, "writeBackupFile")
                       /\ ~CallAt(p, "updateNetworkAlertsSettings")
                       /\ LogAt(p, "skipped")
                       /\ i > p
                  ELSE /\ ~LogAt(p, "skipped")
                       /\ \/ i = p /\ step = "backup"
                          \/ CallAt(p, "getNetworkAlertsSettings")
    /\ \A p \in 1..Len(selected_networks) :
          (FailedAt(p, "getNetworkWebhooksHttpServers")
             \/ FailedAt(p, "createNetworkWebhooksHttpServer"))
          => FailedAt(p, "create_webhook")

\* the first network was skipped for want of a receiver, the second got a
\* new receiver and was backed up
C5_Witness ==
    /\ pc = "done"
    /\ FailedAt(1, "create_webhook")
    /\ OkAt(2, "createNetworkWebhooksHttpServer")
    /\ OkAt(2, "create_webhook")
    /\ CallAt(2, "getNetworkAlertsSettings")

\* the operator's organization number is one of the displayed 1..n
OrgIndexInRange ==
    LET n == PyInt(selection.org)
    IN  n.ok /\ n.val \in 1..Len(RemoteOrgs)

\* the numbers among the comma-separated tokens the operator typed
TypedNumbers ==
    LET ts == Split(selection.indices, <<>>)
    IN  {PyInt(Strip(ts[k])).val : k \in {j \in DOMAIN ts : IsDigit(Strip(ts[j]))}}

\* the networks the operator named: all displayed ones, or those at the
\* typed numbers that are among the displayed 1..n
NamedNets ==
    IF selection.indices = None
    THEN {networks[k].id : k \in DOMAIN networks}
    ELSE {networks[v].id : v \in TypedNumbers \cap DOMAIN networks}

SelectionInvalid ==
    \/ selection.org # None /\ ~OrgIndexInRange
    \/ /\ selection.indices # None
       /\ \/ \E v \in TypedNumbers : v \notin DOMAIN networks
          \/ TypedNumbers = {}

\* C6 as stated: with an organization number or a network number outside
\* 1..n, or no network selected, nothing is mutated; and only networks named
\* by a number in 1..n are mutated.
C6_SelectionValidated ==
    /\ SelectionInvalid => NoMutatingCall
    /\ \A k \in DOMAIN calls :
          calls[k].op \in MutatingOps =>
              (OrgIndexInRange /\ calls[k].net \in NamedNets)

\* C7: two create_webhook calls on one network with the same name and url
\* that both return a receiver return the same receiver, and between them
\* make at most one createNetworkWebhooksHttpServer call.
C7_WebhookIdempotent ==
    \A a \in DOMAIN calls, b \in DOMAIN calls :
        ( /\ a < b
          /\ calls[a].op = "create_webhook" /\ calls[b].op = "create_webhook"
          /\ calls[a].ok /\ calls[b].ok
          /\ calls[a].net = calls[b].net
          /\ calls[a].name = calls[b].name
          /\ calls[a].url = calls[b].url )
        => /\ calls[a].id = calls[b].id
           /\ Cardinality({k \in DOMAIN calls :
                  /\ calls[k].op = "createNetworkWebhooksHttpServer"
                  /\ calls[k].pos \in {calls[a].pos, calls[b].pos}}) <= 1

\* the same network twice in the selection: the first call created the
\* receiver, the second returned it
C7_Witness ==
    \E a \in DOMAIN calls, b \in DOMAIN calls :
        /\ a < b
        /\ calls[a].op = "create_webhook" /\ calls[b].op = "create_webhook"
        /\ calls[a].ok /\ calls[b].ok
        /\ calls[a].net = calls[b].net
        /\ calls[a].name = calls[b].name
        /\ calls[a].url = calls[b].url
        /\ OkAt(calls[a].pos, "createNetworkWebhooksHttpServer")
        /\ calls[b].id = calls[a].id

\* C8 as stated: in one run at most one receiver is created on any network.
C8_OneNewReceiverPerNetwork ==
    \A n \in DOMAIN hooks :
        /\ Len(hooks[n]) <= Len(InitHooks[n]) + 1
        /\ Cardinality({k \in DOMAIN calls :
               /\ calls[k].op = "createNetworkWebhooksHttpServer"
               /\ calls[k].ok
               /\ calls[k].net = n}) <= 1

\* tag in net.get('tags', [])
Tagged(net, tag) == net.hasTags /\ \E k \in DOMAIN net.tags : net.tags[k] = tag

\* out is inp restricted to its tagged networks, in inp's order
IsFilterOf(out, inp, tag) ==
    \E f \in [DOMAIN out -> DOMAIN inp] :
        /\ \A a \in DOMAIN out, b \in DOMAIN out : a < b => f[a] < f[b]
        /\ \A k \in DOMAIN out : out[k] = inp[f[k]]
        /\ {f[k] : k \in DOMAIN out} = {j \in DOMAIN inp : Tagged(inp[j], tag)}

\* C9: once the networks are listed, with a non-empty tag the offered list is
\* the listed networks that carry the tag, in listing order (a network without
\* a tags field is left out), as is filter_networks_by_tag of the listing for
\* any tag; with the empty tag the offered list is the listing itself.
C9_TagFilter ==
    pc \in {"select", "stopped"} =>
        /\ IF tag_filter # <<>>
           THEN IsFilterOf(networks, listed, tag_filter)
           ELSE networks = listed
        /\ \A tag \in {<<"p">>, <<"d">>, <<"P">>, <<"p", "p">>, <<"z">>} :
              IsFilterOf(filter_networks_by_tag(listed, tag), listed, tag)

\* two networks listed, the first without a tags field, the second tagged
\* d and p: the filter p offers the second alone
C9_Witness ==
    /\ pc = "select"
    /\ tag_filter = <<"p">>
    /\ Len(listed) = 2
    /\ ~listed[1].hasTags
    /\ listed[2].tags = << <<"d">>, <<"p">> >>
    /\ networks = <<listed[2]>>

\* C10 as stated: unless the answer to the first confirmation is yes in some
\* letter case, the run aborts without a remote call or a dashboard handle.
C10_OnlyYesProceeds ==
    (answer.prompt = "confirm" /\ Lower(answer.raw) # YES) =>
        (pc = "aborted" /\ calls = <<>> /\ ~dashboard)

\* C10 as amended: unless the answer, stripped of surrounding whitespace, is
\* yes in some letter case, the run aborts without a remote call or a
\* dashboard handle; and while no configuration is loaded (the load failed or
\* has not happened) no remote call is made and no handle exists.
C10_StrippedYesGate ==
    /\ (answer.prompt = "confirm" /\ Lower(Strip(answer.raw)) # YES) =>
          (pc = "aborted" /\ calls = <<>> /\ ~dashboard)
    /\ alert_settings = None =>
          (pc \in {"start", "crashed"} /\ calls = <<>> /\ ~dashboard)

\* the operator answered "y": the run is over, nothing was called
C10_Witness ==
    /\ pc = "aborted"
    /\ answer = [prompt |-> "confirm", raw |-> <<"y">>]
    /\ alert_settings = LoadedDoc

\* the entries of calls and of the log that belong to a network's iteration
PerNetworkCalls == {k \in DOMAIN calls : calls[k].pos > 0}
PerNetworkLines == {k \in DOMAIN log : log[k].pos > 0}

\* the places, among the comma-separated tokens typed, that hold a number
NumberTokens ==
    LET ts == Split(selection.indices, <<>>)
    IN  {j \in DOMAIN ts : IsDigit(Strip(ts[j]))}

\* C11: the networks are processed in the selected order, one at a time.  The
\* selection is the offered list for "all", and otherwise has one place per
\* typed number, in the order typed, holding the offered network of that
\* number; every per-network call and log line belongs to the network at its
\* position of the selection; positions never decrease along the calls or
\* along the log; nothing is recorded for a position the loop has not begun;
\* and every position the loop has passed left a line in the log.
C11_SelectedOrder ==
    /\ (selection.choice # None /\ pc # "crashed") =>
          IF selection.indices = None
          THEN selected_networks = networks
          ELSE LET ts == Split(selection.indices, <<>>)
               IN  /\ Len(selected_networks) = Cardinality(NumberTokens)
                   /\ \A j \in NumberTokens :
                         LET place == Cardinality({m \in NumberTokens : m <= j})
                             v == PyInt(Strip(ts[j])).val
                         IN  v \in DOMAIN networks =>
                                 selected_networks[place] = networks[v]
    /\ \A k \in PerNetworkCalls :
          /\ calls[k].pos \in DOMAIN selected_networks
          /\ calls[k].net = selected_networks[calls[k].pos].id
          /\ IF step = "top" THEN calls[k].pos < i ELSE calls[k].pos <= i
          /\ \A j \in 1..(k - 1) : calls[j].pos <= calls[k].pos
    /\ \A k \in PerNetworkLines :
          /\ log[k].pos \in DOMAIN selected_networks
          /\ log[k].net = selected_networks[log[k].pos].id
          /\ IF step = "top" THEN log[k].pos < i ELSE log[k].pos <= i
          /\ \A j \in 1..(k - 1) : log[j].pos <= log[k].pos
    /\ \A p \in DOMAIN selected_networks :
          p < i => \E k \in PerNetworkLines : log[k].pos = p

\* the operator typed "2,1": the second offered network was backed up and
\* updated first, the first offered network after it
C11_Witness ==
    /\ pc = "done" /\ ~dry_run
    /\ selection.indices = <<"2", ",", "1">>
    /\ Len(networks) = 2
    /\ selected_networks = <<networks[2], networks[1]>>
    /\ \E a \in DOMAIN calls, b \in DOMAIN calls :
          /\ a < b
          /\ calls[a].op = "updateNetworkAlertsSettings"
          /\ calls[a].net = networks[2].id
          /\ calls[b].op = "updateNetworkAlertsSettings"
          /\ calls[b].net = networks[1].id

\* C12: the loaded document is never changed: alert_settings is the loaded
\* document from the load on, every updateNetworkAlertsSettings call is sent
\* it, and a network's settings are those it had or the loaded document.
C12_DocumentUnchanged ==
    /\ pc \notin {"start", "crashed"} => alert_settings = LoadedDoc
    /\ alert_settings \in {None, LoadedDoc}
    /\ \A k \in DOMAIN calls :
          calls[k].op = "updateNetworkAlertsSettings" => calls[k].doc = LoadedDoc
    /\ \A n \in DOMAIN applied : applied[n] \in {None, LoadedDoc}

\* two networks were updated in one run, one after its receiver was created
\* and one after an existing receiver was reused
C12_Witness ==
    /\ pc = "done" /\ use_webhook
    /\ \E a \in DOMAIN calls, b \in DOMAIN calls :
          /\ calls[a].op = "updateNetworkAlertsSettings" /\ calls[a].ok
          /\ calls[b].op = "updateNetworkAlertsSettings" /\ calls[b].ok
          /\ calls[a].net # calls[b].net
          /\ OkAt(calls[a].pos, "createNetworkWebhooksHttpServer")
          /\ ~CallAt(calls[b].pos, "createNetworkWebhooksHttpServer")
          /\ applied[calls[a].net] = LoadedDoc
          /\ applied[calls[b].net] = LoadedDoc

\* the three per-network steps, by the calls that make them up
StepOf(op) ==
    CASE op \in {"getNetworkWebhooksHttpServers",
                 "createNetworkWebhooksHttpServer"} -> "webhook"
      [] op \in {"getNetworkAlertsSettings", "writeBackupFile"} -> "backup"
      [] op = "updateNetworkAlertsSettings" -> "update"
      [] OTHER -> "none"

\* the remote calls made on a network
RemoteOps ==
    {"getNetworkWebhooksHttpServers", "createNetworkWebhooksHttpServer",
     "getNetworkAlertsSettings", "updateNetworkAlertsSettings"}

\* C13 as stated: after a failed call of a step on a network no remote call
\* is made on that network again in the run, and no remote call is made
\* twice on one network.
C13_NoRetry ==
    \A a \in DOMAIN calls, b \in DOMAIN calls :
        ( /\ a < b
          /\ StepOf(calls[a].op) # "none"
          /\ calls[b].op \in RemoteOps
          /\ calls[a].net = calls[b].net )
        => /\ calls[a].ok
           /\ calls[a].op # calls[b].op

\* the two lines written at lines 125-126
LogHeader == <<Line("header", 0, <<>>), Line("dryrun", 0, <<>>)>>

\* C14: in a dry run the log never holds a backup, update or skip line, and
\* when the loop is over it holds, after its two header lines, exactly one
\* DRY RUN line for each place of the selection, in the selection's order.
C14_DryRunLog ==
    dry_run =>
        /\ \A k \in DOMAIN log : log[k].kind \in {"header", "dryrun", "dry"}
        /\ pc = "done" =>
              log = LogHeader \o
                    [k \in DOMAIN selected_networks |->
                        Line("dry", k, selected_networks[k].id)]

\* a finished dry run over the second and then the first offered network,
\* without webhooks
C14_Witness ==
    /\ dry_run /\ ~use_webhook /\ pc = "done"
    /\ selection.indices = <<"2", ",", "1">>
    /\ Len(log) = 4
    /\ log[3] = Line("dry", 1, networks[2].id)
    /\ log[4] = Line("dry", 2, networks[1].id)

\* the two listing calls every run makes before the networks are offered
ListingCalls ==
    <<Call("getOrganizations", 0, <<>>, TRUE),
      Call("getOrganizationNetworks", 0, <<>>, TRUE)>>

\* C15 as stated: a finished dry run made, for every selected network, the
\* first read a run without dry-run makes for it: the listing of its
\* receivers when webhooks are asked for, the fetch of its alert settings
\* otherwise.
C15_DryRunReads ==
    (dry_run /\ pc = "done") =>
        /\ SubSeq(calls, 1, 2) = ListingCalls
        /\ \A p \in DOMAIN selected_networks :
              IF use_webhook
              THEN CallAt(p, "getNetworkWebhooksHttpServers")
              ELSE CallAt(p, "getNetworkAlertsSettings")

\* C15 as amended: every run that offers networks has listed the
\* organizations and the organization's networks first; a dry run makes
\* these two calls and no other: no network's receivers are listed and no
\* network's alert settings are fetched.
C15_DryRunListsOnly ==
    /\ pc \in {"select", "stopped", "prepare", "loop", "done"} =>
          SubSeq(calls, 1, 2) = ListingCalls
    /\ dry_run =>
          /\ \A k \in DOMAIN calls :
                calls[k].op \in {"getOrganizations", "getOrganizationNetworks"}
          /\ Len(calls) <= 2

\* a finished dry run with webhooks asked for, over all networks offered
\* under a tag: the two listing calls and nothing else
C15_Witness ==
    /\ dry_run /\ use_webhook /\ pc = "done"
    /\ tag_filter = <<"p">>
    /\ selection.choice # None /\ selection.indices = None
    /\ selected_networks # <<>>
    /\ calls = ListingCalls

\* what create_webhook was called with, in order
WebhookCalls == {k \in DOMAIN calls : calls[k].op = "create_webhook"}

\* C16 as stated: the webhook name, url and secret are asked for at most
\* once in a run, and all create_webhook calls of the run are given the same
\* name and url.
C16_CapturedOnce ==
    /\ prompts <= 1
    /\ \A a \in WebhookCalls, b \in WebhookCalls :
          calls[a].name = calls[b].name /\ calls[a].url = calls[b].url

\* what one create_webhook call must have done, read off a step of the run:
\* the receivers before the step, the calls the step added, the receivers
\* after it
C17_Step ==
    LET existing == hooks[Current.id]
        name == webhook'.name
        url == webhook'.url
        matching == {k \in DOMAIN existing :
                        existing[k].name = name \/ existing[k].url = url}
        first == CHOOSE k \in matching : \A j \in matching : k <= j
        new == SubSeq(calls', Len(calls) + 1, Len(calls'))
        ret == new[Len(new)]
        creates == {k \in DOMAIN new :
                       new[k].op = "createNetworkWebhooksHttpServer"}
        listed_ok == new[1].op = "getNetworkWebhooksHttpServers" /\ new[1].ok
    IN  (Len(calls') > Len(calls) /\ calls'[Len(calls')].op = "create_webhook") =>
            /\ new[1].op = "getNetworkWebhooksHttpServers"
            /\ (creates # {}) <=> (listed_ok /\ matching = {})
            /\ Cardinality(creates) <= 1
            /\ (listed_ok /\ matching # {}) =>
                  /\ ret.ok
                  /\ ret.id = existing[first].id
                  /\ hooks' = hooks
            /\ ~listed_ok => (~ret.ok /\ hooks' = hooks)

\* C17: in every create_webhook call, when a receiver listed on the network
\* has the name or the url asked for, the call returns the first such
\* receiver of the listing, makes no create call and leaves the network's
\* receivers as they were; a create call is made exactly when the listing
\* succeeded and no receiver matches on either field.
C17_ReuseRule == [][C17_Step]_vars

\* the network had two receivers, the first with the url asked for and the
\* second with the name asked for: the first was returned, nothing created
C17_Witness ==
    \E k \in DOMAIN calls :
        LET n == calls[k].net
        IN  /\ calls[k].op = "create_webhook" /\ calls[k].ok
            /\ n = NetOfOrg1(1).id
            /\ Len(hooks[n]) = 2
            /\ hooks[n][1].url = calls[k].url /\ hooks[n][1].name # calls[k].name
            /\ hooks[n][2].name = calls[k].name /\ hooks[n][2].url # calls[k].url
            /\ calls[k].id = hooks[n][1].id
            /\ ~CallAt(calls[k].pos, "createNetworkWebhooksHttpServer")

\* the lines that close a network's processing
TerminalKinds == {"dry", "skipped", "backup_failed", "updated", "update_failed"}
UpdateKinds == {"updated", "update_failed"}

\* C18: once the final check is passed, every place of the selection the
\* loop has passed has exactly one closing line in the log (simulated,
\* skipped, backup failed, updated, update failed) and the place in progress
\* has none; an update line comes right after the Backed up line of the same
\* place; and a Backed up line is followed at once by the one update line of
\* its place, or is the last line while that place's update is under way.
C18_OneOutcomePerNetwork ==
    i > 0 =>
        /\ \A p \in DOMAIN selected_networks :
              Cardinality({k \in DOMAIN log :
                  log[k].pos = p /\ log[k].kind \in TerminalKinds})
                = IF p < i THEN 1 ELSE 0
        /\ \A k \in DOMAIN log :
              /\ log[k].kind \in UpdateKinds =>
                    /\ k > 1
                    /\ log[k - 1].kind = "backed_up"
                    /\ log[k - 1].pos = log[k].pos
                    /\ log[k - 1].net = log[k].net
              /\ log[k].kind = "backed_up" =>
                    /\ IF k = Len(log)
                       THEN pc = "loop" /\ i = log[k].pos /\ step = "update"
                       ELSE /\ log[k + 1].kind \in UpdateKinds
                            /\ log[k + 1].pos = log[k].pos
                    /\ Cardinality({j \in DOMAIN log :
                          log[j].pos = log[k].pos /\ log[j].kind \in UpdateKinds})
                         <= 1

\* a finished run with webhooks: the first network was skipped for want of
\* a receiver, the second was backed up and its update failed
C18_Witness ==
    /\ pc = "done" /\ use_webhook /\ ~dry_run
    /\ Len(log) = 5
    /\ log[3].kind = "skipped" /\ log[3].pos = 1
    /\ log[4].kind = "backed_up" /\ log[4].pos = 2
    /\ log[5].kind = "update_failed" /\ log[5].pos = 2
====
